---- MODULE Spec2Model ----
(***************************************************************************)
(* script.py: a straight-line HOOMD-blue (v2 scripting API) job.  The      *)
(* model has one action per statement of the script.  The engine is the    *)
(* environment: every call either returns, with the effect the v2 API      *)
(* gives the arguments the script passes, or raises.  hoomd.run is the     *)
(* only call that takes more than one step: RunCall enters the run,        *)
(* RunStep is one time step of it, RunReturn is its return.  The file      *)
(* system outlives the process; everything else is rebuilt by each         *)
(* invocation of the script (Invoke).                                      *)
(***************************************************************************)
EXTENDS Integers, Sequences, FiniteSets, TLC

\* How many times the script is invoked one after the other.
MaxInvocations == 3

VARIABLES
    invocation,   \* number of the running invocation of the script, from 1
    pc,           \* index in Program of the statement to execute next
    status,       \* "script", "in_run", "done" or "raised"
    err,          \* the call whose exception ended the invocation, or "none"
    calls,        \* the engine calls issued by this invocation, in order
    modules,      \* the modules imported so far
    ctx,          \* TRUE once hoomd.context.initialize() returned
    system,       \* the particle system: [N, types]
    nl, lj, all,  \* the script's three variables (handles, or None)
    unitcell,     \* the unit cell hoomd.lattice.sc returned (line 6's temporary)
    pair,         \* the pair force: [r_cut, nlist, coeff]
    integrator,   \* [dt, methods]
    analyzers,    \* the registered periodic writers, in registration order
    tstep,        \* the engine's current time step
    endstep,      \* the step at which the current run ends
    fs,           \* the files: name -> sequence of records written
    last          \* the latest invocation that ran to its end: [inv, calls, fs]

vars == <<invocation, pc, status, err, calls, modules, ctx, system, nl, lj, all,
          unitcell, pair, integrator, analyzers, tstep, endstep, fs, last>>

----------------------------------------------------------------------------
(* Python numbers.  A literal is m * 10^e; float tells 2e3 from 2000.      *)

RECURSIVE Pow10(_)
Pow10(n) == IF n = 0 THEN 1 ELSE 10 * Pow10(n - 1)

PyIntLit(n) == [m |-> n, e |-> 0, float |-> FALSE]
PyFloat(m, e) == [m |-> m, e |-> e, float |-> TRUE]

\* A mistaken conversion: the mantissa alone, the exponent dropped.
PyIntMantissa(x) == x.m

\* int(x): the integer a literal denotes, truncated towards zero.
PyInt(x) == IF x.e >= 0 THEN x.m * Pow10(x.e) ELSE x.m \div Pow10(0 - x.e)

None == [obj |-> "None"]

----------------------------------------------------------------------------
(* The statements of the script, top to bottom.                            *)

\* A mistaken order: the run is started before the writers are registered.
ProgramRunBeforeWriters ==
    << "import hoomd", "import hoomd.md",
       "hoomd.context.initialize", "hoomd.lattice.sc", "hoomd.init.create_lattice",
       "hoomd.md.nlist.cell", "hoomd.md.pair.lj", "lj.pair_coeff.set",
       "hoomd.group.all", "hoomd.md.integrate.mode_standard",
       "hoomd.md.integrate.langevin",
       "hoomd.run", "hoomd.analyze.log", "hoomd.dump.gsd" >>

Program ==
    << "import hoomd", "import hoomd.md",
       "hoomd.context.initialize", "hoomd.lattice.sc", "hoomd.init.create_lattice",
       "hoomd.md.nlist.cell", "hoomd.md.pair.lj", "lj.pair_coeff.set",
       "hoomd.group.all", "hoomd.md.integrate.mode_standard",
       "hoomd.md.integrate.langevin",
       "hoomd.analyze.log", "hoomd.dump.gsd", "hoomd.run" >>

IsImport(s) == s \in {"import hoomd", "import hoomd.md"}

At(s) == status = "script" /\ pc \in 1..Len(Program) /\ Program[pc] = s

\* Where the script goes when a statement has returned.
Advance == IF pc = Len(Program) THEN "done" ELSE "script"

----------------------------------------------------------------------------
(* The arguments of each call, as the script writes them.                  *)

ScArgs == [a |-> PyFloat(20, -1)]

CreateLatticeArgs == [unitcell |-> unitcell, n |-> PyIntLit(5)]

LjArgs == [r_cut |-> PyFloat(25, -1), nlist |-> nl]

\* A mistaken pair: the coefficients are set for a type the lattice lacks.
PairCoeffArgsAB ==
    [a |-> "A", b |-> "B", epsilon |-> PyFloat(10, -1), sigma |-> PyFloat(10, -1)]

PairCoeffArgs ==
    [a |-> "A", b |-> "A", epsilon |-> PyFloat(10, -1), sigma |-> PyFloat(10, -1)]

ModeStandardArgs == [dt |-> PyFloat(5, -3)]

\* A mistaken seed: one that changes from one invocation to the next.
LangevinArgsFreshSeed ==
    [group |-> all, kT |-> PyFloat(2, -1), seed |-> PyIntLit(42 + invocation)]

LangevinArgs == [group |-> all, kT |-> PyFloat(2, -1), seed |-> PyIntLit(42)]

\* A mistaken name: the log goes to another file.
LogArgsOtherName ==
    [filename |-> "log.log", quantities |-> <<"potential_energy">>,
     period |-> PyIntLit(100), overwrite |-> TRUE]

LogArgs ==
    [filename |-> "log-output.log", quantities |-> <<"potential_energy">>,
     period |-> PyIntLit(100), overwrite |-> TRUE]

\* A mistaken extra output: the trajectory goes to a restart file.
GsdArgsRestartFile ==
    [filename |-> "restart.gsd", period |-> PyFloat(2, 3), group |-> all,
     overwrite |-> TRUE]

GsdArgs ==
    [filename |-> "trajectory.gsd", period |-> PyFloat(2, 3), group |-> all,
     overwrite |-> TRUE]

RunArgs == [tsteps |-> PyFloat(1, 4)]

NoArgs == [none |-> TRUE]

Args(s) ==
    CASE s = "hoomd.lattice.sc" -> ScArgs
      [] s = "hoomd.init.create_lattice" -> CreateLatticeArgs
      [] s = "hoomd.md.pair.lj" -> LjArgs
      [] s = "lj.pair_coeff.set" -> PairCoeffArgs
      [] s = "hoomd.md.integrate.mode_standard" -> ModeStandardArgs
      [] s = "hoomd.md.integrate.langevin" -> LangevinArgs
      [] s = "hoomd.analyze.log" -> LogArgs
      [] s = "hoomd.dump.gsd" -> GsdArgs
      [] s = "hoomd.run" -> RunArgs
      [] OTHER -> NoArgs

Call(s) == [fn |-> s, args |-> Args(s)]

----------------------------------------------------------------------------
(* What the engine does with the arguments.                                *)

\* hoomd.lattice.sc: one particle per cell, of the default type 'A', in 3D.
Sc(args) == [N |-> 1, type_name |-> "A", a |-> args.a, dimensions |-> 3]

RECURSIVE Power(_, _)
Power(b, k) == IF k = 0 THEN 1 ELSE b * Power(b, k - 1)

\* create_lattice: the unit cell replicated n times along each dimension.
Lattice(args) ==
    [N |-> args.unitcell.N * Power(PyInt(args.n), args.unitcell.dimensions),
     types |-> {args.unitcell.type_name}]

\* A mistaken open: the file is kept and appended to, whatever overwrite says.
OpenAppend(files, name, overwrite) ==
    [f \in DOMAIN files \cup {name} |->
        IF f \in DOMAIN files THEN files[f] ELSE <<>>]

\* A writer opens its file when it is constructed: overwrite=True empties an
\* existing file, overwrite=False keeps it and appends.
Open(files, name, overwrite) ==
    [f \in DOMAIN files \cup {name} |->
        IF f = name /\ overwrite THEN <<>>
        ELSE IF f \in DOMAIN files THEN files[f] ELSE <<>>]

\* setupAnalyzer: a period given as a float is converted with int().
Analyzer(kind, args, data) ==
    [kind |-> kind, filename |-> args.filename, period |-> PyInt(args.period),
     phase |-> 0, data |-> data]

\* A mistaken schedule: the writer skips the step the run starts from.
DueAfterStart(a, t) == t > 0 /\ (t + a.phase) % a.period = 0

\* With phase >= 0 a writer executes on the steps where
\* (step + phase) % period = 0.
Due(a, t) == (t + a.phase) % a.period = 0

\* What a writer puts in its file at step t.
Sample(a, t) == [inv |-> invocation, step |-> t, data |-> a.data]

\* The files after the writers due at step t have written.
Written(files, t) ==
    [f \in DOMAIN files |->
        LET due == SelectSeq(analyzers, LAMBDA a : a.filename = f /\ Due(a, t))
        IN  files[f] \o [i \in 1..Len(due) |-> Sample(due[i], t)]]

\* The pairs of particle types the pair force has no coefficients for.
MissingCoeff ==
    {p \in system.types \X system.types :
        ~ \E c \in pair.coeff : {c.a, c.b} = {p[1], p[2]}}

\* A mistaken loop bound: one step too many.
RunFinishedLate(t, end) == t > end

\* The run's loop is over at the end step.
RunFinished(t, end) == t >= end

\* The script has no try/except: an exception ends the process.
OnRaiseSwallowed == IF pc = Len(Program) THEN "done" ELSE "script"

OnRaise == "raised"

----------------------------------------------------------------------------
(* The state when the interpreter starts on the script.                    *)

Fresh ==
    [pc |-> 1, status |-> "script", err |-> "none", calls |-> <<>>,
     modules |-> {}, ctx |-> FALSE,
     system |-> [N |-> 0, types |-> {}],
     nl |-> None, lj |-> None, all |-> None, unitcell |-> None,
     pair |-> [r_cut |-> None, nlist |-> None, coeff |-> {}],
     integrator |-> [dt |-> None, methods |-> <<>>],
     analyzers |-> <<>>, tstep |-> 0, endstep |-> 0]

NoFiles == [f \in {} |-> <<>>]

\* What an earlier, unrelated job may have left under the two names.
StaleFiles ==
    [f \in {"log-output.log", "trajectory.gsd"} |->
        << [inv |-> 0, step |-> 0, data |-> <<"stale">>] >>]

Init ==
    /\ invocation = 1
    /\ pc = Fresh.pc /\ status = Fresh.status /\ err = Fresh.err
    /\ calls = Fresh.calls /\ modules = Fresh.modules /\ ctx = Fresh.ctx
    /\ system = Fresh.system /\ nl = Fresh.nl /\ lj = Fresh.lj
    /\ all = Fresh.all /\ unitcell = Fresh.unitcell /\ pair = Fresh.pair
    /\ integrator = Fresh.integrator /\ analyzers = Fresh.analyzers
    /\ tstep = Fresh.tstep /\ endstep = Fresh.endstep
    /\ fs \in {NoFiles, StaleFiles}
    /\ last = [inv |-> 0, calls |-> <<>>, fs |-> NoFiles]

\* A statement returned: the script goes on to the next one.
Return(s) ==
    /\ calls' = IF IsImport(s) THEN calls ELSE Append(calls, Call(s))
    /\ pc' = pc + 1
    /\ status' = Advance
    /\ UNCHANGED <<invocation, err, last>>

Import(s) ==
    /\ At(s)
    /\ modules' = modules \cup {s}
    /\ Return(s)
    /\ UNCHANGED <<ctx, system, nl, lj, all, unitcell, pair, integrator,
                   analyzers, tstep, endstep, fs>>

ImportHoomd == Import("import hoomd")

ImportHoomdMd == Import("import hoomd.md")

ContextInitialize ==
    /\ At("hoomd.context.initialize")
    /\ ctx' = TRUE
    /\ Return("hoomd.context.initialize")
    /\ UNCHANGED <<modules, system, nl, lj, all, unitcell, pair, integrator,
                   analyzers, tstep, endstep, fs>>

LatticeSc ==
    /\ At("hoomd.lattice.sc")
    /\ unitcell' = Sc(ScArgs)
    /\ Return("hoomd.lattice.sc")
    /\ UNCHANGED <<modules, ctx, system, nl, lj, all, pair, integrator,
                   analyzers, tstep, endstep, fs>>

CreateLattice ==
    /\ At("hoomd.init.create_lattice")
    /\ system' = Lattice(CreateLatticeArgs)
    /\ tstep' = 0
    /\ Return("hoomd.init.create_lattice")
    /\ UNCHANGED <<modules, ctx, nl, lj, all, unitcell, pair, integrator,
                   analyzers, endstep, fs>>

NlistCell ==
    /\ At("hoomd.md.nlist.cell")
    /\ nl' = [obj |-> "nlist.cell"]
    /\ Return("hoomd.md.nlist.cell")
    /\ UNCHANGED <<modules, ctx, system, lj, all, unitcell, pair, integrator,
                   analyzers, tstep, endstep, fs>>

PairLj ==
    /\ At("hoomd.md.pair.lj")
    /\ lj' = [obj |-> "pair.lj"]
    /\ pair' = [r_cut |-> LjArgs.r_cut, nlist |-> LjArgs.nlist, coeff |-> {}]
    /\ Return("hoomd.md.pair.lj")
    /\ UNCHANGED <<modules, ctx, system, nl, all, unitcell, integrator,
                   analyzers, tstep, endstep, fs>>

PairCoeffSet ==
    /\ At("lj.pair_coeff.set")
    /\ pair' = [pair EXCEPT !.coeff = @ \cup {PairCoeffArgs}]
    /\ Return("lj.pair_coeff.set")
    /\ UNCHANGED <<modules, ctx, system, nl, lj, all, unitcell, integrator,
                   analyzers, tstep, endstep, fs>>

GroupAll ==
    /\ At("hoomd.group.all")
    /\ all' = [obj |-> "group.all", members |-> system.N]
    /\ Return("hoomd.group.all")
    /\ UNCHANGED <<modules, ctx, system, nl, lj, unitcell, pair, integrator,
                   analyzers, tstep, endstep, fs>>

ModeStandard ==
    /\ At("hoomd.md.integrate.mode_standard")
    /\ integrator' = [integrator EXCEPT !.dt = ModeStandardArgs.dt]
    /\ Return("hoomd.md.integrate.mode_standard")
    /\ UNCHANGED <<modules, ctx, system, nl, lj, all, unitcell, pair,
                   analyzers, tstep, endstep, fs>>

Langevin ==
    /\ At("hoomd.md.integrate.langevin")
    /\ integrator' = [integrator EXCEPT !.methods = Append(@, LangevinArgs)]
    /\ Return("hoomd.md.integrate.langevin")
    /\ UNCHANGED <<modules, ctx, system, nl, lj, all, unitcell, pair,
                   analyzers, tstep, endstep, fs>>

AnalyzeLog ==
    /\ At("hoomd.analyze.log")
    /\ analyzers' = Append(analyzers, Analyzer("log", LogArgs, LogArgs.quantities))
    /\ fs' = Open(fs, LogArgs.filename, LogArgs.overwrite)
    /\ Return("hoomd.analyze.log")
    /\ UNCHANGED <<modules, ctx, system, nl, lj, all, unitcell, pair,
                   integrator, tstep, endstep>>

DumpGsd ==
    /\ At("hoomd.dump.gsd")
    /\ analyzers' = Append(analyzers, Analyzer("gsd", GsdArgs, GsdArgs.group))
    /\ fs' = Open(fs, GsdArgs.filename, GsdArgs.overwrite)
    /\ Return("hoomd.dump.gsd")
    /\ UNCHANGED <<modules, ctx, system, nl, lj, all, unitcell, pair,
                   integrator, tstep, endstep>>

\* hoomd.run(1e4) is called: the engine refuses to run a pair force that
\* lacks coefficients, and otherwise runs int(tsteps) steps from where it is.
RunCall ==
    /\ At("hoomd.run")
    /\ calls' = Append(calls, Call("hoomd.run"))
    /\ IF MissingCoeff = {}
       THEN /\ status' = "in_run"
            /\ endstep' = tstep + PyInt(RunArgs.tsteps)
            /\ UNCHANGED <<pc, err>>
       ELSE /\ status' = OnRaise
            /\ err' = "hoomd.run"
            /\ pc' = IF OnRaise = "raised" THEN pc ELSE pc + 1
            /\ UNCHANGED endstep
    /\ UNCHANGED <<invocation, modules, ctx, system, nl, lj, all, unitcell, pair,
                   integrator, analyzers, tstep, fs, last>>

\* One time step of the run: the writers due at the current step write, then
\* the integrator advances the system to the next step.
RunStep ==
    /\ status = "in_run"
    /\ ~ RunFinished(tstep, endstep)
    /\ fs' = Written(fs, tstep)
    /\ tstep' = tstep + 1
    /\ UNCHANGED <<invocation, pc, status, err, calls, modules, ctx, system, nl,
                   lj, all, unitcell, pair, integrator, analyzers, endstep, last>>

\* hoomd.run returns.
RunReturn ==
    /\ status = "in_run"
    /\ RunFinished(tstep, endstep)
    /\ pc' = pc + 1
    /\ status' = Advance
    /\ UNCHANGED <<invocation, err, calls, modules, ctx, system, nl, lj, all,
                   unitcell, pair, integrator, analyzers, tstep, endstep, fs,
                   last>>

\* The statement at pc raises: an import that fails, or an engine call that
\* was issued and failed.  Nothing of the call takes effect.
Raise ==
    /\ status = "script"
    /\ pc \in 1..Len(Program)
    /\ Program[pc] # "hoomd.run"
    /\ calls' = IF IsImport(Program[pc]) THEN calls
                ELSE Append(calls, Call(Program[pc]))
    /\ err' = Program[pc]
    /\ status' = OnRaise
    /\ pc' = IF OnRaise = "raised" THEN pc ELSE pc + 1
    /\ UNCHANGED <<invocation, modules, ctx, system, nl, lj, all, unitcell, pair,
                   integrator, analyzers, tstep, endstep, fs, last>>

\* The engine raises in the middle of the run.
RunRaise ==
    /\ status = "in_run"
    /\ err' = "hoomd.run"
    /\ status' = OnRaise
    /\ pc' = IF OnRaise = "raised" THEN pc ELSE pc + 1
    /\ UNCHANGED <<invocation, calls, modules, ctx, system, nl, lj, all, unitcell,
                   pair, integrator, analyzers, tstep, endstep, fs, last>>

\* The script is invoked again: a new process, the same files.
Invoke ==
    /\ status \in {"done", "raised"}
    /\ invocation < MaxInvocations
    /\ invocation' = invocation + 1
    /\ last' = IF status = "done"
               THEN [inv |-> invocation, calls |-> calls, fs |-> fs]
               ELSE last
    /\ pc' = Fresh.pc /\ status' = Fresh.status /\ err' = Fresh.err
    /\ calls' = Fresh.calls /\ modules' = Fresh.modules /\ ctx' = Fresh.ctx
    /\ system' = Fresh.system /\ nl' = Fresh.nl /\ lj' = Fresh.lj
    /\ all' = Fresh.all /\ unitcell' = Fresh.unitcell /\ pair' = Fresh.pair
    /\ integrator' = Fresh.integrator /\ analyzers' = Fresh.analyzers
    /\ tstep' = Fresh.tstep /\ endstep' = Fresh.endstep
    /\ UNCHANGED fs

Step ==
    \/ ImportHoomd \/ ImportHoomdMd
    \/ ContextInitialize \/ LatticeSc \/ CreateLattice
    \/ NlistCell \/ PairLj \/ PairCoeffSet
    \/ GroupAll \/ ModeStandard \/ Langevin
    \/ AnalyzeLog \/ DumpGsd
    \/ RunCall \/ RunStep \/ RunReturn

Next == Step \/ Raise \/ RunRaise \/ Invoke

Spec == Init /\ [][Next]_vars

\* The interpreter executes the statements one after the other and each call
\* blocks until it returns: the script keeps taking steps until it ends.
LiveSpec == Spec /\ WF_vars(Step)

----------------------------------------------------------------------------
(* Vocabulary of the properties.                                           *)

LogName == "log-output.log"

TrajName == "trajectory.gsd"

Fns(cs) == [i \in 1..Len(cs) |-> cs[i].fn]

StepsOf(content) == [i \in 1..Len(content) |-> content[i].step]

Called(fn) == \E i \in 1..Len(calls) : calls[i].fn = fn

\* The position of the first call of fn in this invocation, 0 if there is none.
PosOf(fn) ==
    IF Called(fn) THEN CHOOSE i \in 1..Len(calls) :
                           calls[i].fn = fn /\ \A j \in 1..(i - 1) : calls[j].fn # fn
    ELSE 0

RegisteredFor(name) == \E i \in 1..Len(analyzers) : analyzers[i].filename = name

\* The multiples of period below upto, in increasing order.
Multiples(period, upto) ==
    [i \in 1..((upto + period - 1) \div period) |-> (i - 1) * period]

\* The order of the engine calls, first to last.
ClaimedOrder ==
    << "hoomd.context.initialize", "hoomd.lattice.sc", "hoomd.init.create_lattice",
       "hoomd.md.nlist.cell", "hoomd.md.pair.lj", "lj.pair_coeff.set",
       "hoomd.group.all", "hoomd.md.integrate.mode_standard",
       "hoomd.md.integrate.langevin", "hoomd.analyze.log", "hoomd.dump.gsd",
       "hoomd.run" >>

----------------------------------------------------------------------------
\* C1: when the script has run to its end, a file named log-output.log and a
\* file named trajectory.gsd exist, each opened by a writer of this
\* invocation; and whenever hoomd.run has been called, both writers were
\* registered under exactly these names by earlier calls.
C1_OutputsExist ==
    /\ status = "done" =>
          /\ {LogName, TrajName} \subseteq DOMAIN fs
          /\ RegisteredFor(LogName) /\ RegisteredFor(TrajName)
    /\ Called("hoomd.run") =>
          /\ 0 < PosOf("hoomd.analyze.log")
          /\ PosOf("hoomd.analyze.log") < PosOf("hoomd.run")
          /\ calls[PosOf("hoomd.analyze.log")].args.filename = LogName
          /\ 0 < PosOf("hoomd.dump.gsd")
          /\ PosOf("hoomd.dump.gsd") < PosOf("hoomd.run")
          /\ calls[PosOf("hoomd.dump.gsd")].args.filename = TrajName

C1_Witness ==
    /\ status = "done" /\ invocation = 1
    /\ {LogName, TrajName} \subseteq DOMAIN fs
    /\ Len(fs[LogName]) > 0 /\ Len(fs[TrajName]) > 0
    /\ fs[LogName][1].inv = 1 /\ fs[TrajName][1].inv = 1

----------------------------------------------------------------------------
\* The log of this invocation holds exactly one sample for each multiple of
\* 100 among the first n steps, each of potential_energy alone.
LogHasSamplesBelow(n) ==
    /\ LogName \in DOMAIN fs
    /\ StepsOf(fs[LogName]) = Multiples(100, n)
    /\ \A i \in 1..Len(fs[LogName]) :
          /\ fs[LogName][i].inv = invocation
          /\ fs[LogName][i].data = <<"potential_energy">>

----------------------------------------------------------------------------
\* C3: a completed run has advanced the simulation from step 0 by exactly
\* 10000 steps and the script has ended without an error; and a run that was
\* started always ends, by returning or by raising.
C3_RunCompletes ==
    /\ [](status = "done" => (tstep = 10000 /\ endstep = 10000 /\ err = "none"))
    /\ [](status = "in_run" => tstep <= 10000)
    /\ ((status = "in_run") ~> (status \in {"done", "raised"}))

C3_Witness == status = "done" /\ tstep = 10000 /\ Called("hoomd.run")

----------------------------------------------------------------------------
\* The trajectory of this invocation holds exactly one snapshot for each
\* multiple of 2000 among the first n steps, each of the group all.
TrajHasFramesBelow(n) ==
    /\ TrajName \in DOMAIN fs
    /\ StepsOf(fs[TrajName]) = Multiples(2000, n)
    /\ \A i \in 1..Len(fs[TrajName]) :
          /\ fs[TrajName][i].inv = invocation
          /\ fs[TrajName][i].data = all

\* The group the script calls all is the group of every particle, and it is
\* the group the Langevin integrator was given.
AllIsEveryParticle ==
    /\ all = [obj |-> "group.all", members |-> system.N]
    /\ system.N > 0
    /\ Len(integrator.methods) = 1
    /\ integrator.methods[1].group = all

----------------------------------------------------------------------------
\* C5: a file whose writer this invocation has registered holds records of
\* this invocation only, whatever the file held before; and when an invocation
\* has run to its end, the two files hold what they held at the end of the
\* latest earlier invocation that ran to its end, step for step: 100 samples
\* and 5 snapshots, however many invocations went before.
C5_Overwritten ==
    /\ \A f \in DOMAIN fs :
          RegisteredFor(f) =>
              \A i \in 1..Len(fs[f]) : fs[f][i].inv = invocation
    /\ status = "done" =>
          /\ {LogName, TrajName} \subseteq DOMAIN fs
          /\ Len(fs[LogName]) = 100 /\ Len(fs[TrajName]) = 5
          /\ last.inv > 0 =>
                \A f \in {LogName, TrajName} :
                    StepsOf(fs[f]) = StepsOf(last.fs[f])

C5_Witness ==
    /\ status = "done" /\ invocation >= 2 /\ last.inv >= 1
    /\ {LogName, TrajName} \subseteq DOMAIN fs
    /\ Len(fs[LogName]) = Len(last.fs[LogName])
    /\ fs[LogName][1].inv = invocation
    /\ last.fs[LogName][1].inv = last.inv

----------------------------------------------------------------------------
\* C6: the files that exist, the files the writers write to and the file
\* names the script passes to the engine are all among log-output.log and
\* trajectory.gsd; the script imports nothing but hoomd and hoomd.md.
C6_OnlyTheTwoFiles ==
    /\ DOMAIN fs \subseteq {LogName, TrajName}
    /\ \A i \in 1..Len(analyzers) : analyzers[i].filename \in {LogName, TrajName}
    /\ \A i \in 1..Len(calls) :
          "filename" \in DOMAIN calls[i].args =>
              calls[i].args.filename \in {LogName, TrajName}
    /\ modules \subseteq {"import hoomd", "import hoomd.md"}

C6_Witness ==
    /\ status = "done"
    /\ DOMAIN fs = {LogName, TrajName}
    /\ Len(fs[LogName]) > 0 /\ Len(fs[TrajName]) > 0
    /\ Len(analyzers) = 2

----------------------------------------------------------------------------
\* C7: an error is never survived: whenever a statement has raised, the
\* invocation is over, the failing call is the last call issued, the calls
\* issued are the ones before it in the script and hoomd.run is among them only
\* if it is the call that failed; and nothing follows but a new invocation of
\* the script.
C7_FailurePropagates ==
    /\ [](err # "none" =>
            /\ status = "raised"
            /\ Fns(calls) = SubSeq(ClaimedOrder, 1, Len(calls))
            /\ (~ IsImport(err)) =>
                  (Len(calls) > 0 /\ calls[Len(calls)].fn = err)
            /\ IsImport(err) => calls = <<>>
            /\ Called("hoomd.run") => err = "hoomd.run")
    /\ [][status = "raised" =>
            (invocation' = invocation + 1 /\ calls' = <<>> /\ err' = "none")]_vars

C7_Witness ==
    /\ status = "raised"
    /\ err = "hoomd.md.pair.lj"
    /\ Len(calls) = 5
    /\ ~ Called("hoomd.run")

----------------------------------------------------------------------------
\* C8: the calls issued so far are always the first calls of the one fixed
\* order, so each is issued once and after all the ones before it; a script
\* that ran to its end issued them all, hoomd.run last; while hoomd.run is in
\* progress it is the latest call; and hoomd.run is never called before the
\* pair coefficients, the integration mode and method, and both writers are in
\* place.
C8_FixedOrder ==
    /\ Len(calls) <= Len(ClaimedOrder)
    /\ Fns(calls) = SubSeq(ClaimedOrder, 1, Len(calls))
    /\ status = "done" => Fns(calls) = ClaimedOrder
    /\ status = "in_run" => calls[Len(calls)].fn = "hoomd.run"
    /\ Called("hoomd.run") =>
          /\ pair.coeff # {}
          /\ integrator.dt # None
          /\ Len(integrator.methods) = 1
          /\ Len(analyzers) = 2

C8_Witness ==
    /\ status = "done"
    /\ Len(calls) = 12
    /\ calls[12].fn = "hoomd.run"
    /\ calls[1].fn = "hoomd.context.initialize"

----------------------------------------------------------------------------
\* C9: when hoomd.run is about to be called, and from then on, the system is
\* 125 particles of the single type A, the pair force has the cutoff 2.5 and
\* exactly one coefficient entry, (A, A) with epsilon 1.0 and sigma 1.0, and
\* every pair of types of the system has an entry.
C9_CoefficientsComplete ==
    (At("hoomd.run") \/ Called("hoomd.run")) =>
        /\ system = [N |-> 125, types |-> {"A"}]
        /\ pair.r_cut = PyFloat(25, -1)
        /\ pair.coeff = {[a |-> "A", b |-> "A", epsilon |-> PyFloat(10, -1),
                          sigma |-> PyFloat(10, -1)]}
        /\ \A x \in system.types : \A y \in system.types :
              \E c \in pair.coeff : {c.a, c.b} = {x, y}

C9_Witness ==
    /\ status = "in_run"
    /\ system.N = 125
    /\ Cardinality(pair.coeff) = 1
    /\ tstep > 0

----------------------------------------------------------------------------
\* C10: the Langevin method is always given kT = 0.2 and seed = 42; the calls
\* of an invocation, arguments included, are the first calls of the latest
\* invocation that ran to its end; and two invocations that ran to their ends
\* issued the same calls and left samples and snapshots of the same steps.
C10_Deterministic ==
    /\ \A i \in 1..Len(calls) :
          calls[i].fn = "hoomd.md.integrate.langevin" =>
              /\ calls[i].args.kT = PyFloat(2, -1)
              /\ calls[i].args.seed = PyIntLit(42)
    /\ last.inv > 0 =>
          /\ Len(calls) <= Len(last.calls)
          /\ \A i \in 1..Len(calls) : calls[i] = last.calls[i]
          /\ status = "done" =>
                /\ calls = last.calls
                /\ DOMAIN fs = DOMAIN last.fs
                /\ \A f \in DOMAIN fs : StepsOf(fs[f]) = StepsOf(last.fs[f])

C10_Witness ==
    /\ status = "done" /\ invocation >= 2 /\ last.inv >= 1
    /\ Len(calls) = 12 /\ calls = last.calls
    /\ LogName \in DOMAIN fs /\ Len(fs[LogName]) = 100

====
